---- MODULE Spec2Model ----
(***************************************************************************)
(* Environment handle of emacs-module-rs: exit-status translation          *)
(* (handle_exit / maybe_exit / handle_panic), the rooted-value registry    *)
(* and its release in Drop.                                                *)
(*                                                                         *)
(* One exported call is modelled from the construction of its handle to    *)
(* its teardown:                                                           *)
(*   idle -NewEnv-> body -(call | handle_exit | protect)*->                *)
(*        -maybe_exit-> caught  |  -panic-> unwinding                      *)
(*        -handle_panic-> handled | escaped  -Drop-> idle                  *)
(*                                                                         *)
(* Spec runs the translators on every result and panic; SpecOps fills the  *)
(* body with the fallible operations of the handle (intern, provide,       *)
(* define_error, or_signal, free_last_protected); SpecCatch calls the      *)
(* exported functions error:get-type and error:catch; SpecActivation is    *)
(* the load of the module: the static initializers of define_errors!,      *)
(* then define_core_errors and the queued initializers.                    *)
(*                                                                         *)
(* Every host value is a sequence of strings, so that all values compare:  *)
(* an opaque identifier is <<"a">>, a host string made from text m is      *)
(* <<"str">> \o m, the one-element list of x is <<"list">> \o x.  Text is  *)
(* a sequence of string pieces, concatenated with \o as format! does.      *)
(***************************************************************************)
EXTENDS Integers, Sequences, FiniteSets, TLC

VARIABLES
    pc,         \* position of the exported call
    status,     \* the host's exit status: [kind, x, y]
    protected,  \* Env.protected: [active, vec]
    latch,      \* HAS_FIXED_GC_BUG_31238: "unset", "true", "false"
    cur,        \* the Result / thread::Result in flight
    captured,   \* the error handle_exit captured last in this call, and the
                \* exit status it was captured from
    violated,   \* the host has reported a status outside return/signal/throw
    last,       \* observation of the last operation
    prev,       \* summary of the operation before it
    early,      \* releases issued by free_last_protected in this call
    story,      \* what the exported function of this call did with a host exit
    steps,      \* every step Drop made on the exit status, in order
    lock,       \* holder of the mutex of __CUSTOM_ERRORS__, 0 when free
    ctor,       \* position of each __emrs_define_errors__ static initializer
    custom_errors,  \* __CUSTOM_ERRORS__: the queued initializers, by number
    declared,   \* the error symbols the host has been made to declare, in order
    act,        \* module activation: "loading", "draining", "ok", "failed"
    ran,        \* the initializers activation has run, in order
    failed      \* a declaration call of activation has failed

gvars == <<early, story, steps>>

avars == <<lock, ctor, custom_errors, declared, act, ran, failed>>

vars == <<pc, status, protected, latch, cur, captured, violated, last, prev,
          early, story, steps, lock, ctor, custom_errors, declared, act, ran,
          failed>>

----------------------------------------------------------------------------
(* Bounds *)

MaxProtected == 2
MaxEarly == 1
\* uses of define_errors! in the module
MaxInits == 3

----------------------------------------------------------------------------
(* Exit statuses, error.rs:17-19 *)

RETURN == 0
SIGNAL == 1
THROW == 2
\* a status value no constant of the crate names
UNKNOWN == 3

NoVal == <<>>

\* opaque identifiers issued by the host
Vals == {<<"a">>, <<"b">>}

\* symbol::rust_error, symbol::rust_panic, symbol::rust_wrong_type_user_ptr, symbol::nil
rust_error == <<"rust-error">>
rust_panic == <<"rust-panic">>
rust_wrong_type_user_ptr == <<"rust-wrong-type-user-ptr">>
nil == <<"nil">>

\* texts carried by native errors and panics
Texts == {<<"boom">>, <<"RefCell<i64>">>}

Ret == [kind |-> RETURN, x |-> NoVal, y |-> NoVal]
Sig(s, d) == [kind |-> SIGNAL, x |-> s, y |-> d]
Thr(t, v) == [kind |-> THROW, x |-> t, y |-> v]
Unk == [kind |-> UNKNOWN, x |-> NoVal, y |-> NoVal]

\* what a call of Lisp code may leave behind
HostOutcomes ==
    {Ret, Unk} \cup {Sig(s, d) : s \in Vals, d \in Vals}
               \cup {Thr(t, v) : t \in Vals, v \in Vals}

\* what make_string, list and free_global_ref may leave behind
InnerOutcomes == {Ret, Unk, Sig(<<"a">>, <<"b">>), Thr(<<"b">>, <<"a">>)}

\* what intern, list, make_string, provide and define-error may leave behind
OpOutcomes == {Ret, Sig(<<"a">>, <<"b">>), Thr(<<"b">>, <<"a">>)}

IsPending(st) == st.kind \in {SIGNAL, THROW}

----------------------------------------------------------------------------
(* Errors, results, panic payloads *)

NoErr == [k |-> "none", x |-> NoVal, y |-> NoVal, text |-> <<>>]
Signal(s, d) == [k |-> "Signal", x |-> s, y |-> d, text |-> <<>>]
Throw(t, v) == [k |-> "Throw", x |-> t, y |-> v, text |-> <<>>]
WrongTypeUserPtr(expected) ==
    [k |-> "WrongTypeUserPtr", x |-> NoVal, y |-> NoVal, text |-> expected]
\* an anyhow::Error that is not an ErrorKind; text is its Display
Other(text) == [k |-> "Other", x |-> NoVal, y |-> NoVal, text |-> text]

IsErrorKind(e) == e.k \in {"Signal", "Throw", "WrongTypeUserPtr"}

HostErrors ==
    {Signal(s, d) : s \in Vals, d \in Vals} \cup {Throw(t, v) : t \in Vals, v \in Vals}
NativeErrors ==
    {WrongTypeUserPtr(t) : t \in Texts} \cup {Other(t) : t \in Texts}
Errors == HostErrors \cup NativeErrors

NoPayload == [ty |-> "none", text |-> <<>>, e |-> NoErr]
PString(m) == [ty |-> "String", text |-> m, e |-> NoErr]
PStr(m) == [ty |-> "str", text |-> m, e |-> NoErr]
PErrorKind(e) == [ty |-> "ErrorKind", text |-> <<>>, e |-> e]
POther == [ty |-> "other", text |-> <<>>, e |-> NoErr]

Payloads ==
    {PString(m) : m \in Texts} \cup {PStr(m) : m \in Texts}
        \cup {PErrorKind(e) : e \in HostErrors \cup {WrongTypeUserPtr(t) : t \in Texts}}
        \cup {POther}

\* Ok(v), Err(e), or an unwinding panic carrying a payload
Ok(v) == [tag |-> "Ok", v |-> v, e |-> NoErr, p |-> NoPayload]
Err(e) == [tag |-> "Err", v |-> NoVal, e |-> e, p |-> NoPayload]
Panic(p) == [tag |-> "Panic", v |-> NoVal, e |-> NoErr, p |-> p]

\* the native error that stands for the exit status st
ErrorOf(st) ==
    IF st.kind = SIGNAL THEN Signal(st.x, st.y) ELSE Throw(st.x, st.y)

\* the results or_signal is applied to
OrSignalInputs ==
    {Ok(<<"a">>), Err(Other(<<"boom">>)), Err(WrongTypeUserPtr(<<"RefCell<i64>">>))}

\* #[error(...)] of ErrorKind, Display of the others
Display(e) ==
    CASE e.k = "Signal" ->
            <<"Non-local signal: symbol=">> \o e.x \o <<" data=">> \o e.y
      [] e.k = "Throw" ->
            <<"Non-local throw: tag=">> \o e.x \o <<" value=">> \o e.y
      [] e.k = "WrongTypeUserPtr" -> <<"expected: ">> \o e.text
      [] OTHER -> e.text

----------------------------------------------------------------------------
(* The host side of the callback table *)

\* one record per call issued: the function, its argument, the status kind
\* when it was issued and the status kind when it returned
CallRec(fn, arg, st, after) ==
    [fn |-> fn, arg |-> arg, at |-> st.kind, post |-> after.kind,
     from |-> st, to |-> after]

non_local_exit_get(st) == st

non_local_exit_clear(st) == Ret

\* raising takes effect only from normal-return
\* a host whose non_local_exit_signal replaces a pending exit
non_local_exit_signal_over(st, symbol, data) == Sig(symbol, data)

non_local_exit_signal(st, symbol, data) ==
    IF st.kind = RETURN THEN Sig(symbol, data) ELSE st

non_local_exit_throw(st, tag, value) ==
    IF st.kind = RETURN THEN Thr(tag, value) ELSE st

\* any other function of the table: it bails out while an exit is pending,
\* otherwise it leaves the outcome o and, on normal return, the value val
HostCall(st, o, val) ==
    IF st.kind # RETURN
    THEN [st |-> st, val |-> NoVal]
    ELSE [st |-> o, val |-> IF o.kind = RETURN THEN val ELSE NoVal]

----------------------------------------------------------------------------
(* Boundary translators, error.rs *)

StatusText(k) == IF k = UNKNOWN THEN <<"3">> ELSE <<"?">>

\* handle_exit without the clear of the signal branch
handle_exit_noclear(st, result) ==
    CASE st.kind = RETURN -> [st |-> st, res |-> Ok(result)]
      [] st.kind = SIGNAL -> [st |-> st, res |-> Err(Signal(st.x, st.y))]
      [] st.kind = THROW ->
            [st |-> non_local_exit_clear(st), res |-> Err(Throw(st.x, st.y))]
      [] OTHER ->
            [st |-> st,
             res |-> Panic(PString(<<"Unexpected non local exit status ">>
                                      \o StatusText(st.kind)))]

\* Env::handle_exit
handle_exit(st, result) ==
    LET got == non_local_exit_get(st) IN
    CASE got.kind = RETURN -> [st |-> st, res |-> Ok(result)]
      [] got.kind = SIGNAL ->
            [st |-> non_local_exit_clear(st), res |-> Err(Signal(got.x, got.y))]
      [] got.kind = THROW ->
            [st |-> non_local_exit_clear(st), res |-> Err(Throw(got.x, got.y))]
      [] OTHER ->
            [st |-> st,
             res |-> Panic(PString(<<"Unexpected non local exit status ">>
                                      \o StatusText(got.kind)))]

\* the record of one handle_exit invocation
HxRec(st, r) == CallRec("handle_exit", <<r.res.tag>>, st, r.st)

\* unsafe_raw_call! / Env::call: one host function, then handle_exit
raw_call(st, fn, o, val) ==
    LET h == HostCall(st, o, val)
        r == handle_exit(h.st, h.val)
    IN [st |-> r.st, res |-> r.res,
        calls |-> <<CallRec(fn, val, st, h.st), HxRec(h.st, r)>>]

\* Env::signal_internal; o1, o2 are what the host does in make_string and list
signal_internal(st, symbol, message, o1, o2) ==
    LET c1 == raw_call(st, "make_string", o1, <<"str">> \o message) IN
    IF c1.res.tag # "Ok" THEN c1
    ELSE LET c2 == raw_call(c1.st, "list", o2, <<"list">> \o c1.res.v) IN
         IF c2.res.tag # "Ok"
         THEN [st |-> c2.st, res |-> c2.res, calls |-> c1.calls \o c2.calls]
         ELSE LET st3 == non_local_exit_signal(c2.st, symbol, c2.res.v) IN
              [st |-> st3,
               res |-> Ok(symbol),
               calls |-> c1.calls \o c2.calls
                          \o <<CallRec("non_local_exit_signal", symbol, c2.st, st3)>>]

\* .unwrap_or_else(|_| panic!("Failed to signal {}", err))
unwrap_or_panic(r, e) ==
    IF r.res.tag = "Err"
    THEN [r EXCEPT !.res = Panic(PString(<<"Failed to signal ">> \o Display(e)))]
    ELSE r

\* raise a captured signal
raise_signal(st, symbol, data) ==
    LET st1 == non_local_exit_signal(st, symbol, data) IN
    [st |-> st1, res |-> Ok(symbol),
     calls |-> <<CallRec("non_local_exit_signal", symbol, st, st1)>>]

\* raise a captured throw
raise_throw(st, tag, value) ==
    LET st1 == non_local_exit_throw(st, tag, value) IN
    [st |-> st1, res |-> Ok(tag),
     calls |-> <<CallRec("non_local_exit_throw", tag, st, st1)>>]

\* handle_known that raises every host exit as a signal with its values swapped
handle_known_swapped(st, err, o1, o2) ==
    CASE err.k \in {"Signal", "Throw"} -> raise_signal(st, err.y, err.x)
      [] OTHER ->
            unwrap_or_panic(
                signal_internal(st, rust_wrong_type_user_ptr, Display(err), o1, o2),
                err)

\* handle_known that raises the wrong-type error with the bare expected text
handle_known_bare(st, err, o1, o2) ==
    CASE err.k = "Signal" -> raise_signal(st, err.x, err.y)
      [] err.k = "Throw" -> raise_throw(st, err.x, err.y)
      [] OTHER ->
            unwrap_or_panic(
                signal_internal(st, rust_wrong_type_user_ptr, err.text, o1, o2),
                err)

\* Env::handle_known
handle_known(st, err, o1, o2) ==
    CASE err.k = "Signal" -> raise_signal(st, err.x, err.y)
      [] err.k = "Throw" -> raise_throw(st, err.x, err.y)
      [] OTHER ->
            unwrap_or_panic(
                signal_internal(st, rust_wrong_type_user_ptr, Display(err), o1, o2),
                err)

\* Env::maybe_exit
maybe_exit(st, result, o1, o2) ==
    IF result.tag = "Ok"
    THEN [st |-> st, res |-> Ok(result.v), calls |-> <<>>]
    ELSE IF IsErrorKind(result.e)
         THEN handle_known(st, result.e, o1, o2)
         ELSE unwrap_or_panic(
                  signal_internal(st, rust_error, Display(result.e), o1, o2),
                  result.e)

\* format!("{:#?}", error) of a Box<dyn Any>: the payload's content is not shown
DebugAny == <<"Any">>

\* Err(err) of signal_internal in handle_panic: println!, then nil is returned
or_nil(si) == IF si.res.tag = "Err" THEN [si EXCEPT !.res = Ok(nil)] ELSE si

\* handle_panic that clears the exit status before passing a value through
handle_panic_okclear(st, result, o1, o2) ==
    IF result.tag = "Ok"
    THEN [st |-> non_local_exit_clear(st), res |-> Ok(result.v), calls |-> <<>>]
    ELSE IF result.p.ty = "String"
         THEN or_nil(signal_internal(st, rust_panic, result.p.text, o1, o2))
         ELSE IF result.p.ty = "ErrorKind"
              THEN handle_known(st, result.p.e, o1, o2)
              ELSE or_nil(signal_internal(st, rust_panic, <<"Any">>, o1, o2))

\* handle_panic that wraps every payload, ErrorKind included, as a rust-panic
handle_panic_wrap(st, result, o1, o2) ==
    IF result.tag = "Ok"
    THEN [st |-> st, res |-> Ok(result.v), calls |-> <<>>]
    ELSE LET m == IF result.p.ty = "String" THEN result.p.text ELSE DebugAny
         IN or_nil(signal_internal(st, rust_panic, m, o1, o2))

\* Env::handle_panic; result is Ok(v) or Panic(payload)
handle_panic(st, result, o1, o2) ==
    IF result.tag = "Ok"
    THEN [st |-> st, res |-> Ok(result.v), calls |-> <<>>]
    ELSE IF result.p.ty = "String"
         THEN or_nil(signal_internal(st, rust_panic, result.p.text, o1, o2))
         ELSE IF result.p.ty = "ErrorKind"
              THEN handle_known(st, result.p.e, o1, o2)
              ELSE or_nil(signal_internal(st, rust_panic, DebugAny, o1, o2))

----------------------------------------------------------------------------
(* Teardown, env.rs *)

None == [active |-> FALSE, vec |-> <<>>]
Some(vec) == [active |-> TRUE, vec |-> vec]

\* the loop over protected.borrow().iter(); outs[i] is what the host does in
\* the i-th free_global_ref
RECURSIVE release(_, _, _)
release(st, vec, outs) ==
    IF vec = <<>>
    THEN [st |-> st, calls |-> <<>>]
    ELSE LET h == HostCall(st, Head(outs), NoVal)
             rest == release(h.st, Tail(vec), Tail(outs))
         IN [st |-> rest.st,
             calls |-> <<CallRec("free_global_ref", Head(vec), st, h.st)>>
                        \o rest.calls]

\* impl Drop for Env
drop(st, prot, outs) ==
    IF ~prot.active
    THEN [st |-> st, calls |-> <<>>, steps |-> <<>>]
    ELSE LET got == non_local_exit_get(st)
             st1 == IF got.kind = SIGNAL \/ got.kind = THROW
                    THEN non_local_exit_clear(st) ELSE st
             r == release(st1, prot.vec, outs)
             st2 == CASE got.kind = SIGNAL -> non_local_exit_signal(r.st, got.x, got.y)
                      [] got.kind = THROW -> non_local_exit_throw(r.st, got.x, got.y)
                      [] OTHER -> r.st
             cleared == IF got.kind = SIGNAL \/ got.kind = THROW
                        THEN <<CallRec("non_local_exit_clear", NoVal, st, st1)>>
                        ELSE <<>>
             restored == CASE got.kind = SIGNAL ->
                                <<CallRec("non_local_exit_signal", got.x, r.st, st2)>>
                           [] got.kind = THROW ->
                                <<CallRec("non_local_exit_throw", got.x, r.st, st2)>>
                           [] OTHER -> <<>>
         IN [st |-> st2, calls |-> r.calls,
             steps |-> cleared \o r.calls \o restored]

\* the registry of a handle that roots only when the latch holds false
new_protected_unrooted(l) == IF l = "false" THEN Some(<<>>) ELSE None

\* Env::new: *HAS_FIXED_GC_BUG_31238.get().unwrap_or(&false) decides the registry
new_protected(l) ==
    LET fixed == IF l = "unset" THEN "false" ELSE l IN
    IF fixed = "true" THEN None ELSE Some(<<>>)

----------------------------------------------------------------------------
(* Handle operations, env.rs, and the error builders of error.rs *)

\* names given to intern and provide, as sequences of bytes
Names == {<<"f", "o", "o">>, <<"f", "NUL", "o">>}

\* CString::new(name): fails on an interior NUL byte
CString_new(name) ==
    IF \E i \in DOMAIN name : name[i] = "NUL"
    THEN Err(Other(<<"nul byte found in provided data">>))
    ELSE Ok(name)

\* a sequence of calls that stops at the first one that does not return Ok
then_call(c1, c2) ==
    IF c1.res.tag # "Ok" THEN c1
    ELSE [st |-> c2.st, res |-> c2.res, calls |-> c1.calls \o c2.calls]

\* intern that converts the name only after the host call was made
intern_late(st, name, o) ==
    LET c == raw_call(st, "intern", o, <<"sym">> \o name) IN
    IF CString_new(name).tag = "Err"
    THEN [c EXCEPT !.res = CString_new(name)]
    ELSE c

\* Env::intern
intern(st, name, o) ==
    LET c == CString_new(name) IN
    IF c.tag = "Err"
    THEN [st |-> st, res |-> c, calls |-> <<>>]
    ELSE raw_call(st, "intern", o, <<"sym">> \o c.v)

\* Env::provide that goes on after a failing intern
provide_eager(st, name, o1, o2) ==
    LET i == intern(st, name, o1)
        c == raw_call(i.st, "provide", o2, <<"sym">> \o name)
    IN [st |-> c.st, res |-> c.res, calls |-> i.calls \o c.calls]

\* Env::provide
provide(st, name, o1, o2) ==
    LET i == intern(st, name, o1) IN
    IF i.res.tag # "Ok" THEN i
    ELSE then_call(i, raw_call(i.st, "provide", o2, i.res.v))

\* Env::define_error: self.list(parents)?, then the call of define-error
define_error(st, name, parents, o1, o2) ==
    LET l == raw_call(st, "list", o1, <<"list">> \o parents) IN
    IF l.res.tag # "Ok" THEN l
    ELSE then_call(l, raw_call(l.st, "define-error", o2, name))

\* Env::signal that raises the signal at once
signal_raising(st, symbol, text, o1, o2) ==
    LET m == raw_call(st, "make_string", o1, <<"str">> \o text) IN
    IF m.res.tag # "Ok" THEN m
    ELSE LET l == raw_call(m.st, "list", o2, <<"list">> \o m.res.v) IN
         IF l.res.tag # "Ok" THEN then_call(m, l)
         ELSE [st |-> non_local_exit_signal(l.st, symbol, l.res.v),
               res |-> Err(Signal(symbol, l.res.v)),
               calls |-> m.calls \o l.calls]

\* Env::signal with data (text,): the list is built, the error is returned
signal(st, symbol, text, o1, o2) ==
    LET m == raw_call(st, "make_string", o1, <<"str">> \o text) IN
    IF m.res.tag # "Ok" THEN m
    ELSE LET l == raw_call(m.st, "list", o2, <<"list">> \o m.res.v) IN
         IF l.res.tag # "Ok" THEN then_call(m, l)
         ELSE [st |-> l.st,
               res |-> Err(Signal(symbol, l.res.v)),
               calls |-> m.calls \o l.calls]

\* ResultExt::or_signal
or_signal(st, result, symbol, o1, o2) ==
    IF result.tag = "Ok"
    THEN [st |-> st, res |-> result, calls |-> <<>>]
    ELSE signal(st, symbol, Display(result.e), o1, o2)

\* protected.borrow().last().unwrap() on an empty registry
UnwrapNone == <<"called Option::unwrap() on a None value">>

\* Env::free_last_protected
free_last_protected(st, prot, o) ==
    IF ~prot.active
    THEN [st |-> st, res |-> Ok(NoVal), calls |-> <<>>]
    ELSE IF prot.vec = <<>>
         THEN [st |-> st, res |-> Panic(PStr(UnwrapNone)), calls |-> <<>>]
         ELSE LET h == HostCall(st, o, NoVal)
                  r == handle_exit(h.st, NoVal)
              IN [st |-> r.st, res |-> r.res,
                  calls |-> <<CallRec("free_global_ref",
                                      prot.vec[Len(prot.vec)], st, h.st),
                              HxRec(h.st, r)>>]

----------------------------------------------------------------------------
(* Exported functions of the test module, test_error.rs *)

\* Value::protect: a handle that roots appends the identifier to its registry
protect(prot, v) == IF prot.active THEN Some(Append(prot.vec, v)) ELSE prot

\* error:get-type: f.call([]), a Signal is answered with its symbol
get_type(st, prot, o, v) ==
    LET r == raw_call(st, "funcall", o, v) IN
    IF r.res.tag = "Err" /\ r.res.e.k = "Signal"
    THEN [st |-> r.st, res |-> Ok(r.res.e.x), calls |-> r.calls,
          prot |-> protect(prot, r.res.e.x)]
    ELSE [st |-> r.st, res |-> r.res, calls |-> r.calls, prot |-> prot]

\* error:catch: lambda.call([]), a Throw of the expected tag is answered with
\* the thrown value
catch(st, prot, expected_tag, o, v) ==
    LET r == raw_call(st, "funcall", o, v) IN
    IF r.res.tag = "Err" /\ r.res.e.k = "Throw"
    THEN LET tagged == protect(prot, r.res.e.x) IN
         IF r.res.e.x = expected_tag
         THEN [st |-> r.st, res |-> Ok(r.res.e.y), calls |-> r.calls,
               prot |-> protect(tagged, r.res.e.y)]
         ELSE [st |-> r.st, res |-> r.res, calls |-> r.calls, prot |-> tagged]
    ELSE [st |-> r.st, res |-> r.res, calls |-> r.calls, prot |-> prot]

----------------------------------------------------------------------------
(* Error hierarchy: define_errors! and define_core_errors, error.rs *)

\* the error symbols the host knows before the module is loaded
symbol_error == <<"error">>
HostSymbols == {symbol_error, <<"wrong-type-argument">>}

\* the symbol the i-th define_errors! declares, and its parent: the first one
\* derives from rust-error, each later one from the one before
CustomError(i) == <<"custom-error">> \o [k \in 1..i |-> "'"]
ParentOf(i) == IF i = 1 THEN rust_error ELSE CustomError(i - 1)

RangeOf(seq) == {seq[i] : i \in DOMAIN seq}

\* the symbol a value stands for: intern gives the symbol of that name
SymbolOf(v) == IF v # <<>> /\ Head(v) = "sym" THEN Tail(v) ELSE v

\* what the host's define-error leaves behind: it signals for a parent that is
\* not an error symbol, else o
host_define_error(known, parents, o) ==
    IF {SymbolOf(p) : p \in parents} \subseteq HostSymbols \cup RangeOf(known)
    THEN o
    ELSE Sig(<<"error">>, <<"Unknown signal">>)

\* the elements of a list of symbols, as the argument of the host's list
RECURSIVE Elements(_)
Elements(symbols) ==
    IF symbols = <<>> THEN <<>> ELSE Head(symbols) \o Elements(Tail(symbols))

\* the value of d, handed to F
Bind(d, F(_)) == CHOOSE r \in {F(x) : x \in {d}} : TRUE

\* the start of a sequence of declarations
Begin(st, known) == [st |-> st, res |-> Ok(NoVal), calls |-> <<>>, known |-> known]

\* one more step r after the steps d, which did not fail
Step(d, r, known) ==
    [st |-> r.st, res |-> r.res, calls |-> d.calls \o r.calls, known |-> known]

\* `define_error(name, message, parents)?` after the steps d: skipped when d
\* failed; the host adds name to its error symbols when the call returns Ok
declare(d, name, parents, o1, o2) ==
    IF d.res.tag # "Ok" THEN d
    ELSE Bind(define_error(d.st, name, Elements(parents), o1,
                           host_define_error(d.known, RangeOf(parents), o2)),
              LAMBDA r : Step(d, r, IF r.res.tag = "Ok"
                                    THEN Append(d.known, name) ELSE d.known))

\* `intern(name)?` after the steps d
interned(d, name, o) ==
    IF d.res.tag # "Ok" THEN d
    ELSE Bind(intern(d.st, name, o), LAMBDA r : Step(d, r, d.known))

\* define_core_errors that goes on after a failed declaration of rust-panic
define_core_errors_lax(st, known, outs) ==
    Bind(declare(Begin(st, known), rust_panic, <<symbol_error>>, outs[1], outs[2]),
      LAMBDA r :
    Bind(IF r.res.tag = "Err" THEN [r EXCEPT !.res = Ok(NoVal)] ELSE r,
      LAMBDA d1 :
    Bind(declare(d1, rust_error, <<symbol_error>>, outs[3], outs[4]),
      LAMBDA d2 :
    Bind(interned(d2, <<"wrong-type-argument">>, outs[5]),
      LAMBDA i3 :
    declare(i3, rust_wrong_type_user_ptr,
            <<rust_error, i3.res.v>>, outs[6], outs[7])))))

\* define_core_errors that leaves rust-wrong-type-user-ptr out
define_core_errors_short(st, known, outs) ==
    Bind(declare(Begin(st, known), rust_panic, <<symbol_error>>, outs[1], outs[2]),
      LAMBDA d1 :
    declare(d1, rust_error, <<symbol_error>>, outs[3], outs[4]))

\* define_core_errors that declares rust-wrong-type-user-ptr before rust-error
define_core_errors_unordered(st, known, outs) ==
    Bind(declare(Begin(st, known), rust_panic, <<symbol_error>>, outs[1], outs[2]),
      LAMBDA d1 :
    Bind(interned(d1, <<"wrong-type-argument">>, outs[5]),
      LAMBDA i3 :
    Bind(declare(i3, rust_wrong_type_user_ptr,
                 <<rust_error, i3.res.v>>, outs[6], outs[7]),
      LAMBDA d3 :
    declare(d3, rust_error, <<symbol_error>>, outs[3], outs[4]))))

\* Env::define_core_errors; outs are what the host does in its seven calls
define_core_errors(st, known, outs) ==
    Bind(declare(Begin(st, known), rust_panic, <<symbol_error>>, outs[1], outs[2]),
      LAMBDA d1 :
    Bind(declare(d1, rust_error, <<symbol_error>>, outs[3], outs[4]),
      LAMBDA d2 :
    Bind(interned(d2, <<"wrong-type-argument">>, outs[5]),
      LAMBDA i3 :
    declare(i3, rust_wrong_type_user_ptr,
            <<rust_error, i3.res.v>>, outs[6], outs[7]))))

\* the closure define_errors! queues, for the i-th use of the macro
initializer(st, known, i, o1, o2, o3) ==
    Bind(interned(Begin(st, known), ParentOf(i), o1),
      LAMBDA p :
    declare(p, CustomError(i), <<p.res.v>>, o2, o3))

\* the initializer the drain of the queue runs after pos others
next_initializer(queue, pos) == queue[pos + 1]

----------------------------------------------------------------------------
(* Observations *)

\* x is the second argument of the operation (a symbol, a name, a tag)
ObsX(op, pre, reg, arg, ret, calls, x) ==
    [op |-> op, pre |-> pre, reg |-> reg, arg |-> arg, ret |-> ret,
     calls |-> calls, x |-> x]

Obs(op, pre, reg, arg, ret, calls) == ObsX(op, pre, reg, arg, ret, calls, NoVal)

NoStory == [fn |-> "none", raised |-> Ret, handled |-> FALSE]

\* the status kind seen by the handle_exit that ended the operation, -1 when
\* the operation did not end with a handle_exit
TrailingHx(calls) ==
    IF calls # <<>> /\ calls[Len(calls)].fn = "handle_exit"
    THEN calls[Len(calls)].at
    ELSE -1

Summary(o) == [op |-> o.op, hx |-> TrailingHx(o.calls)]

NoCapture == [e |-> NoErr, from |-> Ret]

OffProtocol(calls) ==
    \E i \in DOMAIN calls : calls[i].at = UNKNOWN \/ calls[i].post = UNKNOWN

----------------------------------------------------------------------------
(* Operations *)

Init ==
    /\ pc = "idle"
    /\ status = Ret
    /\ protected = None
    /\ latch = "unset"
    /\ cur = Ok(NoVal)
    /\ captured = NoCapture
    /\ violated = FALSE
    /\ last = Obs("init", Ret, None, Ok(NoVal), Ok(NoVal), <<>>)
    /\ prev = [op |-> "none", hx |-> -1]
    /\ early = 0
    /\ story = NoStory
    /\ steps = <<>>
    /\ lock = 0
    /\ ctor = [i \in 1..MaxInits |-> "start"]
    /\ custom_errors = <<>>
    /\ declared = <<>>
    /\ act = "loading"
    /\ ran = <<>>
    /\ failed = FALSE

\* HAS_FIXED_GC_BUG_31238 is set once (OnceCell), between calls or while the
\* body of a call runs
SetLatch(b) ==
    /\ pc \in {"idle", "body"}
    /\ latch = "unset"
    /\ latch' = b
    /\ UNCHANGED <<pc, status, protected, cur, captured, violated, last, prev>>
    /\ UNCHANGED <<gvars, avars>>

\* Env::new, for a call the host starts with no exit pending
NewEnv ==
    /\ pc = "idle"
    /\ pc' = "body"
    /\ status' = Ret
    /\ protected' = new_protected(latch)
    /\ cur' = Ok(NoVal)
    /\ captured' = NoCapture
    /\ violated' = FALSE
    /\ last' = Obs("new", status, None, Ok(NoVal), Ok(NoVal), <<>>)
    /\ prev' = Summary(last)
    /\ early' = 0
    /\ story' = NoStory
    /\ steps' = <<>>
    /\ UNCHANGED latch
    /\ UNCHANGED avars

\* a call of Lisp code through the handle (Env::call, Value::call): the host
\* function, then handle_exit
Call(o, v) ==
    /\ pc = "body"
    /\ LET r == raw_call(status, "funcall", o, v) IN
        /\ status' = r.st
        /\ cur' = r.res
        /\ captured' = IF r.res.tag = "Err"
                       THEN [e |-> r.res.e, from |-> HostCall(status, o, v).st]
                       ELSE captured
        /\ violated' = (violated \/ OffProtocol(r.calls))
        /\ pc' = IF r.res.tag = "Panic" THEN "unwinding" ELSE "body"
        /\ last' = Obs("call", status, protected, Ok(v), r.res, r.calls)
    /\ prev' = Summary(last)
    /\ UNCHANGED <<protected, latch>>
    /\ UNCHANGED <<gvars, avars>>

\* Env::handle_exit called on its own
HandleExit ==
    /\ pc = "body"
    /\ LET r == handle_exit(status, cur.v) IN
        /\ status' = r.st
        /\ cur' = r.res
        /\ captured' = IF r.res.tag = "Err"
                       THEN [e |-> r.res.e, from |-> status]
                       ELSE captured
        /\ pc' = IF r.res.tag = "Panic" THEN "unwinding" ELSE "body"
        /\ last' = Obs("handle_exit", status, protected, Ok(cur.v), r.res,
                       <<HxRec(status, r)>>)
    /\ prev' = Summary(last)
    /\ UNCHANGED <<protected, latch, violated>>
    /\ UNCHANGED <<gvars, avars>>

\* root(value): the new reference is appended to the registry
Protect(v) ==
    /\ pc = "body"
    /\ protected.active
    /\ Len(protected.vec) < MaxProtected
    /\ protected' = Some(Append(protected.vec, v))
    /\ last' = Obs("protect", status, protected, Ok(v), Ok(v), <<>>)
    /\ prev' = Summary(last)
    /\ UNCHANGED <<pc, status, latch, cur, captured, violated>>
    /\ UNCHANGED <<gvars, avars>>

\* the exit status the host raised in the last host call of an operation that
\* ended in Err; outs are the outcomes of its host calls, in order
RaisedIn(r, outs) ==
    IF r.res.tag = "Err" /\ r.calls # <<>>
    THEN [e |-> r.res.e, from |-> outs[Len(r.calls) \div 2]]
    ELSE captured

\* the common effect of a fallible operation of the handle called in the body
BodyOp(op, arg, x, r, outs) ==
    /\ pc = "body"
    /\ status' = r.st
    /\ cur' = r.res
    /\ captured' = RaisedIn(r, outs)
    /\ violated' = (violated \/ OffProtocol(r.calls))
    /\ pc' = IF r.res.tag = "Panic" THEN "unwinding" ELSE "body"
    /\ last' = ObsX(op, status, protected, arg, r.res, r.calls, x)
    /\ prev' = Summary(last)
    /\ UNCHANGED <<protected, latch, story, steps>>
    /\ UNCHANGED avars

\* Env::intern
Intern(name, o) ==
    /\ BodyOp("intern", Ok(name), NoVal, intern(status, name, o), <<o>>)
    /\ UNCHANGED early

\* Env::provide
Provide(name, o1, o2) ==
    /\ BodyOp("provide", Ok(name), NoVal, provide(status, name, o1, o2), <<o1, o2>>)
    /\ UNCHANGED early

\* Env::define_error, as the test module's init calls it
DefineError(o1, o2) ==
    /\ BodyOp("define_error", Ok(<<"emacs-module-rs-test-error">>), rust_error,
              define_error(status, <<"emacs-module-rs-test-error">>, rust_error, o1, o2),
              <<o1, o2>>)
    /\ UNCHANGED early

\* result.or_signal(env, symbol)
OrSignal(result, symbol, o1, o2) ==
    /\ BodyOp("or_signal", result, symbol,
              or_signal(status, result, symbol, o1, o2), <<o1, o2>>)
    /\ UNCHANGED early

\* Env::free_last_protected
FreeLastProtected(o) ==
    /\ early < MaxEarly
    /\ BodyOp("free_last_protected", Ok(NoVal), NoVal,
              free_last_protected(status, protected, o), <<o>>)
    /\ early' = IF protected.active /\ protected.vec # <<>> THEN early + 1 ELSE early

\* a call of an exported function of the test module, from its body to the
\* maybe_exit on what the body returned; o is what the host did in the call of
\* the Lisp function v
Exported(fn, x, o, v, b) ==
    /\ pc = "body"
    /\ story = NoStory
    /\ Len(b.prot.vec) <= MaxProtected
    /\ LET r == IF b.res.tag = "Panic"
                THEN [st |-> b.st, res |-> b.res, calls |-> <<>>]
                ELSE maybe_exit(b.st, b.res, Ret, Ret)
           calls == b.calls \o r.calls
       IN /\ status' = r.st
          /\ cur' = r.res
          /\ violated' = (violated \/ OffProtocol(calls))
          /\ pc' = IF r.res.tag = "Panic" THEN "unwinding" ELSE "caught"
          /\ last' = ObsX(fn, status, protected, Ok(v), r.res, calls, x)
    /\ protected' = b.prot
    /\ captured' = IF b.calls[2].at \in {SIGNAL, THROW}
                   THEN [e |-> ErrorOf(o), from |-> o]
                   ELSE captured
    /\ story' = [fn |-> fn, raised |-> HostCall(status, o, v).st,
                 handled |-> (b.calls[2].at \in {SIGNAL, THROW} /\ b.res.tag = "Ok")]
    /\ prev' = Summary(last)
    /\ UNCHANGED <<latch, early, steps>>
    /\ UNCHANGED avars

\* error:get-type
GetType(o, v) == Exported("get_type", NoVal, o, v, get_type(status, protected, o, v))

\* error:catch
Catch(expected_tag, o, v) ==
    Exported("catch", expected_tag, o, v,
             catch(status, protected, expected_tag, o, v))

\* module activation
ActOutcomes == {Ret, Sig(<<"a">>, <<"b">>), Thr(<<"b">>, <<"a">>)}

\* __emrs_define_errors__: try_lock().expect(..)
CtorLock(i) ==
    /\ act = "loading"
    /\ ctor[i] = "start"
    /\ IF lock = 0
       THEN /\ lock' = i
            /\ ctor' = [ctor EXCEPT ![i] = "locked"]
       ELSE /\ ctor' = [ctor EXCEPT ![i] = "panicked"]
            /\ UNCHANGED lock
    /\ UNCHANGED <<custom_errors, declared, act, ran, failed>>
    /\ UNCHANGED <<pc, status, protected, latch, cur, captured, violated, last, prev>>
    /\ UNCHANGED gvars

\* __emrs_define_errors__: push, and the guard is dropped
CtorPush(i) ==
    /\ ctor[i] = "locked"
    /\ custom_errors' = Append(custom_errors, i)
    /\ lock' = 0
    /\ ctor' = [ctor EXCEPT ![i] = "done"]
    /\ UNCHANGED <<declared, act, ran, failed>>
    /\ UNCHANGED <<pc, status, protected, latch, cur, captured, violated, last, prev>>
    /\ UNCHANGED gvars

\* a host call among calls raised
Raised(calls) ==
    \E i \in DOMAIN calls :
        calls[i].fn # "handle_exit" /\ calls[i].post \in {SIGNAL, THROW}

\* activation ends with ok when nothing is left in the queue
DrainedTo(queue, n) == IF n = Len(queue) THEN "ok" ELSE "draining"

\* the module is given its first handle: define_core_errors
DefineCoreErrors(outs) ==
    /\ pc = "idle"
    /\ act = "loading"
    /\ \A i \in 1..MaxInits : ctor[i] = "done"
    /\ \E r \in {define_core_errors(status, declared, outs)} :
        /\ status' = r.st
        /\ declared' = r.known
        /\ failed' = (failed \/ Raised(r.calls))
        /\ act' = IF r.res.tag = "Ok" THEN DrainedTo(custom_errors, 0) ELSE "failed"
        /\ last' = Obs("define_core_errors", status, protected, Ok(NoVal), r.res,
                       r.calls)
    /\ prev' = Summary(last)
    /\ UNCHANGED <<lock, ctor, custom_errors, ran>>
    /\ UNCHANGED <<pc, protected, latch, cur, captured, violated>>
    /\ UNCHANGED gvars

\* the drain of the queue runs its next initializer
RunInitializer(o1, o2, o3) ==
    /\ pc = "idle"
    /\ act = "draining"
    /\ \E i \in {next_initializer(custom_errors, Len(ran))} :
       \E r \in {initializer(status, declared, i, o1, o2, o3)} :
          /\ status' = r.st
          /\ declared' = r.known
          /\ ran' = Append(ran, i)
          /\ failed' = (failed \/ Raised(r.calls))
          /\ act' = IF r.res.tag = "Ok"
                    THEN DrainedTo(custom_errors, Len(ran) + 1) ELSE "failed"
          /\ last' = ObsX("initializer", status, protected, Ok(NoVal), r.res,
                          r.calls, CustomError(i))
    /\ prev' = Summary(last)
    /\ UNCHANGED <<lock, ctor, custom_errors>>
    /\ UNCHANGED <<pc, protected, latch, cur, captured, violated>>
    /\ UNCHANGED gvars

\* the exported function returns result; Env::maybe_exit translates it
MaybeExit(result, o1, o2) ==
    /\ pc = "body"
    /\ LET r == maybe_exit(status, result, o1, o2) IN
        /\ status' = r.st
        /\ cur' = r.res
        /\ violated' = (violated \/ OffProtocol(r.calls))
        /\ last' = Obs("maybe_exit", status, protected, result, r.res, r.calls)
    /\ pc' = "caught"
    /\ prev' = Summary(last)
    /\ UNCHANGED <<protected, latch, captured>>
    /\ UNCHANGED <<gvars, avars>>

\* the exported function panics with payload p
BodyPanics(p) ==
    /\ pc = "body"
    /\ pc' = "unwinding"
    /\ cur' = Panic(p)
    /\ last' = Obs("panic", status, protected, Panic(p), Panic(p), <<>>)
    /\ prev' = Summary(last)
    /\ UNCHANGED <<status, protected, latch, captured, violated>>
    /\ UNCHANGED <<gvars, avars>>

\* Env::handle_panic on the outcome of catch_unwind
HandlePanic(o1, o2) ==
    /\ pc \in {"caught", "unwinding"}
    /\ LET r == handle_panic(status, cur, o1, o2) IN
        /\ status' = r.st
        /\ cur' = r.res
        /\ violated' = (violated \/ OffProtocol(r.calls))
        /\ pc' = IF r.res.tag = "Panic" THEN "escaped" ELSE "handled"
        /\ last' = Obs("handle_panic", status, protected, cur, r.res, r.calls)
    /\ prev' = Summary(last)
    /\ UNCHANGED <<protected, latch, captured>>
    /\ UNCHANGED <<gvars, avars>>

\* the handle goes out of scope
Drop(outs) ==
    /\ pc \in {"handled", "escaped"}
    /\ LET r == drop(status, protected, outs) IN
        /\ status' = r.st
        /\ violated' = (violated \/ OffProtocol(r.calls))
        /\ last' = Obs("drop", status, protected, cur, Ok(NoVal), r.calls)
        /\ steps' = r.steps
    /\ protected' = None
    /\ pc' = "idle"
    /\ prev' = Summary(last)
    /\ UNCHANGED <<latch, cur, captured, early, story>>
    /\ UNCHANGED avars

\* the host outcomes an operation on result can meet: only signal_internal
\* calls host functions that may raise
InnerFor(result) ==
    IF \/ result.tag = "Err" /\ result.e.k \notin {"Signal", "Throw"}
       \/ result.tag = "Panic"
            /\ ~(result.p.ty = "ErrorKind" /\ result.p.e.k \in {"Signal", "Throw"})
    THEN InnerOutcomes
    ELSE {Ret}

HandlePanicStep ==
    \E o1 \in InnerFor(cur), o2 \in InnerFor(cur) : HandlePanic(o1, o2)

DropStep ==
    \E outs \in [1..Len(protected.vec) -> InnerOutcomes] : Drop(outs)

Next ==
    \/ \E b \in {"true", "false"} : SetLatch(b)
    \/ NewEnv
    \/ \E o \in HostOutcomes, v \in Vals : Call(o, v)
    \/ HandleExit
    \/ \E v \in Vals : Protect(v)
    \/ \E result \in {Ok(v) : v \in Vals} \cup {Err(e) : e \in Errors} :
          \E o1 \in InnerFor(result), o2 \in InnerFor(result) :
              MaybeExit(result, o1, o2)
    \/ \E p \in Payloads : BodyPanics(p)
    \/ HandlePanicStep
    \/ DropStep

Spec == Init /\ [][Next]_vars

\* or_signal calls the host only on Err
OpsFor(result) == IF result.tag = "Err" THEN OpOutcomes ELSE {Ret}

\* the exported function returns the result of its last operation
ReturnCur ==
    \E o1 \in InnerFor(cur), o2 \in InnerFor(cur) : MaybeExit(cur, o1, o2)

\* calls whose bodies are made of the fallible operations of the handle
NextOps ==
    \/ \E b \in {"true", "false"} : SetLatch(b)
    \/ NewEnv
    \/ \E v \in Vals : Protect(v)
    \/ \E name \in Names, o \in OpOutcomes : Intern(name, o)
    \/ \E name \in Names, o1 \in OpOutcomes, o2 \in OpOutcomes :
          Provide(name, o1, o2)
    \/ \E o1 \in OpOutcomes, o2 \in OpOutcomes : DefineError(o1, o2)
    \/ \E result \in OrSignalInputs, symbol \in Vals :
          \E o1 \in OpsFor(result), o2 \in OpsFor(result) :
              OrSignal(result, symbol, o1, o2)
    \/ \E o \in OpOutcomes : FreeLastProtected(o)
    \/ ReturnCur
    \/ HandlePanicStep
    \/ DropStep

SpecOps == Init /\ [][NextOps]_vars

\* calls of the exported functions error:get-type and error:catch
NextCatch ==
    \/ \E b \in {"true", "false"} : SetLatch(b)
    \/ NewEnv
    \/ \E v \in Vals : Protect(v)
    \/ \E o \in HostOutcomes, v \in Vals : GetType(o, v)
    \/ \E expected_tag \in Vals, o \in HostOutcomes, v \in Vals :
          Catch(expected_tag, o, v)
    \/ HandlePanicStep
    \/ DropStep

SpecCatch == Init /\ [][NextCatch]_vars

\* the load of the module: static initializers, then activation
NextActivation ==
    \/ \E i \in 1..MaxInits : CtorLock(i)
    \/ \E i \in 1..MaxInits : CtorPush(i)
    \/ \E outs \in [1..7 -> ActOutcomes] : DefineCoreErrors(outs)
    \/ \E o1 \in ActOutcomes, o2 \in ActOutcomes, o3 \in ActOutcomes :
          RunInitializer(o1, o2, o3)

SpecActivation == Init /\ [][NextActivation]_vars

----------------------------------------------------------------------------
(* Properties *)

Pending == {SIGNAL, THROW}

\* the value signal_internal raises as data for the text m
ListOfStr(m) == <<"list", "str">> \o m

\* C1: every handle_exit entered with a signal or a throw pending returns Err
\* and leaves normal-return behind; a handle_exit called right after one that
\* consumed a pending exit, with no host call in between, returns Ok.
C1_ExactlyOnce ==
    /\ \A i \in DOMAIN last.calls :
          (last.calls[i].fn = "handle_exit" /\ last.calls[i].at \in Pending) =>
              /\ last.calls[i].arg = <<"Err">>
              /\ last.calls[i].post = RETURN
    /\ (last.op = "handle_exit" /\ prev.hx \in Pending) =>
              /\ last.pre = Ret
              /\ last.ret.tag = "Ok"
              /\ status = Ret

C1_Witness ==
    /\ last.op = "handle_exit"
    /\ prev.op = "call"
    /\ prev.hx \in Pending
    /\ last.ret.tag = "Ok"
    /\ captured.e.k = "Signal"

\* C2: when maybe_exit is given the Signal or Throw error that handle_exit
\* captured, the exit status afterwards equals the status the error was
\* captured from (same kind, same two identifiers in the same places), and the
\* only call issued is the raise itself.
C2_RoundTrip ==
    (/\ last.op = "maybe_exit"
     /\ last.arg.tag = "Err"
     /\ captured.e.k \in {"Signal", "Throw"}
     /\ last.arg.e = captured.e) =>
        /\ status = captured.from
        /\ last.ret.tag = "Ok"
        /\ Len(last.calls) = 1
        /\ last.calls[1].fn = (IF captured.e.k = "Signal"
                               THEN "non_local_exit_signal"
                               ELSE "non_local_exit_throw")

C2_Witness ==
    /\ last.op = "maybe_exit"
    /\ last.arg.tag = "Err"
    /\ last.arg.e = captured.e
    /\ captured.e.k = "Throw"
    /\ captured.from.x # captured.from.y
    /\ status = captured.from

\* C3 (as claimed): after Drop the exit status is the one Drop started with.
C3_TeardownPreserves ==
    (last.op = "drop" /\ ~violated) => status = last.pre

\* C4 (as claimed): Drop of a rooting handle issues one free_global_ref per
\* registry entry, each with the exit status at normal-return.
C4_ReleaseAll ==
    (last.op = "drop" /\ ~violated /\ last.reg.active) =>
        /\ Len(last.calls) = Len(last.reg.vec)
        /\ \A i \in DOMAIN last.calls :
              /\ last.calls[i].fn = "free_global_ref"
              /\ last.calls[i].arg = last.reg.vec[i]
              /\ last.calls[i].at = RETURN

\* C5 (as claimed): handle_panic returns to its caller, never unwinds, and
\* leaves normal-return or a pending signal/throw.
C5_PanicContained ==
    (last.op = "handle_panic" /\ ~violated) =>
        /\ last.ret.tag = "Ok"
        /\ status.kind \in {RETURN, SIGNAL, THROW}

\* C6 (as claimed): a String payload m leaves the signal rust-panic pending
\* with the list holding m as data.
C6_PanicMessage ==
    (/\ last.op = "handle_panic"
     /\ ~violated
     /\ last.arg.tag = "Panic"
     /\ last.arg.p.ty = "String") =>
        status = Sig(rust_panic, ListOfStr(last.arg.p.text))

\* C7: a panic whose payload is a Signal or Throw error leaves exactly that
\* signal or throw pending, handle_panic returns, and nothing is raised under
\* rust-panic.
C7_PanicCarriesExit ==
    (/\ last.op = "handle_panic"
     /\ last.arg.tag = "Panic"
     /\ last.arg.p.ty = "ErrorKind"
     /\ last.arg.p.e.k \in {"Signal", "Throw"}) =>
        /\ status = (IF last.arg.p.e.k = "Signal"
                     THEN Sig(last.arg.p.e.x, last.arg.p.e.y)
                     ELSE Thr(last.arg.p.e.x, last.arg.p.e.y))
        /\ last.ret.tag = "Ok"
        /\ \A i \in DOMAIN last.calls : last.calls[i].arg # rust_panic

C7_Witness ==
    /\ last.op = "handle_panic"
    /\ last.arg.tag = "Panic"
    /\ last.arg.p.ty = "ErrorKind"
    /\ last.arg.p.e = captured.e
    /\ captured.e.k = "Signal"
    /\ status = captured.from

\* C8 (as claimed): whoever inspects an exit status that is none of return,
\* signal, throw aborts: handle_exit panics, and no Drop that read such a
\* status completes as if nothing had happened.
C8_UnknownIsFatal ==
    /\ \A i \in DOMAIN last.calls :
          (last.calls[i].fn = "handle_exit" /\ last.calls[i].at = UNKNOWN) =>
              last.calls[i].arg = <<"Panic">>
    /\ ~(last.op = "drop" /\ last.reg.active /\ last.pre.kind = UNKNOWN)

\* signal_internal returned Err: one of its two host calls ended in an error
SignalInternalFailed(calls) ==
    \E i \in DOMAIN calls : calls[i].fn = "handle_exit" /\ calls[i].arg = <<"Err">>

\* C9 (as claimed): when signal_internal fails inside maybe_exit or
\* handle_panic, the translator panics instead of returning a value.
C9_RaiseFailureIsFatal ==
    (last.op \in {"maybe_exit", "handle_panic"} /\ SignalInternalFailed(last.calls)) =>
        last.ret.tag = "Panic"

\* C10 (as claimed): maybe_exit, when it returns, has raised rust-wrong-type-user-ptr
\* with the expected text itself as the one list element, and rust-error with
\* the error's Display text.
C10_OutboundMappingBare ==
    (last.op = "maybe_exit" /\ last.arg.tag = "Err" /\ last.ret.tag = "Ok") =>
        /\ last.arg.e.k = "WrongTypeUserPtr" =>
              status = Sig(rust_wrong_type_user_ptr, ListOfStr(last.arg.e.text))
        /\ last.arg.e.k = "Other" =>
              status = Sig(rust_error, ListOfStr(last.arg.e.text))

\* C10 (amended): maybe_exit, when it returns, has raised rust-wrong-type-user-ptr
\* with the one-element list holding "expected: " followed by the expected
\* text, and rust-error with the one-element list holding the error's Display
\* text; when it does not return it has panicked with no exit pending.
C10_OutboundMapping ==
    (/\ last.op = "maybe_exit"
     /\ ~violated
     /\ last.arg.tag = "Err"
     /\ last.arg.e.k \in {"WrongTypeUserPtr", "Other"}) =>
        IF last.ret.tag = "Ok"
        THEN /\ last.arg.e.k = "WrongTypeUserPtr" =>
                   status = Sig(rust_wrong_type_user_ptr,
                                ListOfStr(<<"expected: ">> \o last.arg.e.text))
             /\ last.arg.e.k = "Other" =>
                   status = Sig(rust_error, ListOfStr(last.arg.e.text))
        ELSE /\ last.ret.tag = "Panic"
             /\ status = Ret

C10_Witness ==
    /\ last.op = "maybe_exit"
    /\ last.arg.tag = "Err"
    /\ last.arg.e = WrongTypeUserPtr(<<"RefCell<i64>">>)
    /\ status = Sig(rust_wrong_type_user_ptr,
                    <<"list", "str", "expected: ", "RefCell<i64>">>)

\* C11: on the success path each translator hands its input value through and
\* leaves the exit status as it found it: handle_exit entered at normal-return
\* returns Ok of its argument, maybe_exit(Ok(v)) and handle_panic(Ok(v)) return
\* v, and none of them issues a raise.
C11_PassThrough ==
    /\ (last.op = "handle_exit" /\ last.pre.kind = RETURN) =>
          /\ last.ret = Ok(last.arg.v)
          /\ status = last.pre
          /\ Len(last.calls) = 1
    /\ (last.op = "call" /\ last.calls[2].at = RETURN) =>
          /\ last.ret = Ok(last.arg.v)
          /\ status = Ret
    /\ (last.op \in {"maybe_exit", "handle_panic"} /\ last.arg.tag = "Ok") =>
          /\ last.ret = Ok(last.arg.v)
          /\ status = last.pre
          /\ last.calls = <<>>

C11_Witness ==
    /\ last.op = "handle_panic"
    /\ prev.op = "maybe_exit"
    /\ last.arg.tag = "Ok"
    /\ last.ret.v = last.arg.v
    /\ status.kind = THROW

\* C12: a handle built by Env::new has no registry exactly when the latch
\* holds true at construction, and an empty registry when it holds false or is
\* unset; the latch, once set, never changes.
C12_RootingFollowsLatch ==
    [][/\ (latch # "unset" => latch' = latch)
       /\ (pc = "idle" /\ pc' = "body") =>
             /\ (protected' = None) <=> (latch = "true")
             /\ (latch # "true") => (protected' = Some(<<>>))]_vars

C12_Witness ==
    /\ last.op = "new"
    /\ latch = "true"
    /\ protected = None

\* the host calls among the entries of an operation
HostCalls(calls) == {i \in DOMAIN calls : calls[i].fn # "handle_exit"}

HasNul(name) == \E i \in DOMAIN name : name[i] = "NUL"

\* C15: intern of a name with an interior NUL returns an encoding error,
\* makes no call through the callback table, and leaves the exit status and
\* the registry as they were.
C15_InternNul ==
    (last.op = "intern" /\ HasNul(last.arg.v)) =>
        /\ last.ret.tag = "Err"
        /\ last.ret.e.k = "Other"
        /\ last.calls = <<>>
        /\ status = last.pre
        /\ protected = last.reg

C15_Witness ==
    /\ last.op = "intern"
    /\ HasNul(last.arg.v)
    /\ last.ret = Err(Other(<<"nul byte found in provided data">>))
    /\ prev.op = "intern"
    /\ prev.hx = RETURN

\* the fallible operations of the handle
HandleOps == {"intern", "provide", "define_error"}

\* C18: a fallible handle operation started from normal-return returns, with
\* Ok or with Err, leaving normal-return behind; each of its host calls is
\* issued with no exit pending; an Err is the error of the exit its last host
\* call raised, and the calls before that one raised nothing; provide makes
\* no second host call after a failing intern.
C18_NoStaleStatus ==
    (last.op \in HandleOps /\ last.pre = Ret) =>
        /\ status = Ret
        /\ last.ret.tag \in {"Ok", "Err"}
        /\ \A i \in HostCalls(last.calls) :
              /\ last.calls[i].at = RETURN
              /\ (i + 1 < Len(last.calls) \/ last.ret.tag = "Ok")
                    => last.calls[i].post = RETURN
              /\ (i + 1 = Len(last.calls) /\ last.ret.tag = "Err") =>
                    /\ last.calls[i].post \in Pending
                    /\ captured.from.kind = last.calls[i].post
                    /\ last.ret.e = ErrorOf(captured.from)
        /\ (last.op = "provide" /\ \E i \in HostCalls(last.calls) :
                                      last.calls[i].fn = "provide") =>
              /\ last.calls[1].fn = "intern"
              /\ last.calls[1].post = RETURN
              /\ ~HasNul(last.arg.v)

C18_Witness ==
    /\ last.op = "provide"
    /\ last.ret.tag = "Err"
    /\ Len(last.calls) = 4
    /\ last.calls[3].post = THROW
    /\ prev.op = "define_error"
    /\ prev.hx = SIGNAL
    /\ status = Ret

\* an or_signal whose host calls all returned normally
BuiltQuietly(calls) == \A i \in DOMAIN calls : calls[i].post = RETURN

\* C16 (as claimed): or_signal on Ok returns the same Ok; on Err(e) it returns
\* Signal with the given symbol and the Display text of e as the first
\* element of the data; the exit status stays normal-return; maybe_exit then
\* raises a signal with that symbol and data.
C16_OrSignalAlways ==
    /\ (last.op = "or_signal" /\ last.arg.tag = "Ok") =>
          /\ last.ret = last.arg /\ last.calls = <<>> /\ status = last.pre
    /\ (last.op = "or_signal" /\ last.arg.tag = "Err") =>
          /\ last.ret = Err(Signal(last.x, ListOfStr(Display(last.arg.e))))
          /\ status = last.pre
    /\ (last.op = "maybe_exit" /\ prev.op = "or_signal"
            /\ last.arg.tag = "Err" /\ last.arg.e.k = "Signal") =>
          status = Sig(last.arg.e.x, last.arg.e.y)

\* C16 (amended): as above when the host calls that build the data (the
\* string, then the list) return normally; when one of them raises, or_signal
\* returns the error captured from that exit instead, and the exit status is
\* normal-return all the same.
C16_OrSignal ==
    /\ (last.op = "or_signal" /\ last.arg.tag = "Ok") =>
          /\ last.ret = last.arg /\ last.calls = <<>> /\ status = last.pre
    /\ (last.op = "or_signal" /\ last.arg.tag = "Err") =>
          /\ status = last.pre
          /\ \A i \in HostCalls(last.calls) : last.calls[i].at = RETURN
          /\ BuiltQuietly(last.calls) =>
                /\ last.ret = Err(Signal(last.x, ListOfStr(Display(last.arg.e))))
                /\ Len(last.calls) = 4
          /\ ~BuiltQuietly(last.calls) =>
                /\ last.ret = Err(ErrorOf(captured.from))
                /\ captured.from.kind = last.calls[Len(last.calls) - 1].post
    /\ (last.op = "maybe_exit" /\ prev.op = "or_signal"
            /\ last.arg.tag = "Err" /\ last.arg.e.k = "Signal") =>
          status = Sig(last.arg.e.x, last.arg.e.y)

C16_Witness ==
    /\ last.op = "maybe_exit"
    /\ prev.op = "or_signal"
    /\ last.pre = Ret
    /\ status = Sig(<<"b">>, ListOfStr(<<"expected: ", "RefCell<i64>">>))

\* the registry reg is still there, in place, at the front of the registry now
Extends(now, reg) ==
    /\ now.active = reg.active
    /\ Len(now.vec) >= Len(reg.vec)
    /\ SubSeq(now.vec, 1, Len(reg.vec)) = reg.vec

\* C20 (as claimed): while a rooting handle lives the registry never shrinks
\* and no operation before Drop issues a release call; Drop starts with no
\* identifier released yet and issues at most one release call for each
\* position of the registry.
C20_ReleasedOnceAtTeardown ==
    /\ (last.op \notin {"init", "new", "drop"} /\ last.reg.active) =>
          /\ Extends(protected, last.reg)
          /\ \A i \in DOMAIN last.calls : last.calls[i].fn # "free_global_ref"
    /\ (last.op = "drop" /\ last.reg.active) =>
          /\ early = 0
          /\ Len(last.calls) <= Len(last.reg.vec)
          /\ \A i \in DOMAIN last.calls : last.calls[i].arg = last.reg.vec[i]

\* C17 (as claimed): when the host call of error:get-type or error:catch
\* raised and the function answered Ok, the exit status after teardown is
\* normal-return; when it returned the captured error, the status after
\* teardown is the one the host call raised.
C17_CatchOrPropagate ==
    (last.op = "drop" /\ story.fn \in {"get_type", "catch"}
        /\ IsPending(story.raised) /\ ~violated) =>
        /\ story.handled => status = Ret
        /\ ~story.handled => status = story.raised

\* one step of the exit status: nothing, a raise from normal-return by a call
\* that may raise, or a clear of a pending exit by handle_exit or Drop
Legal(s) ==
    /\ s.at \in {RETURN, SIGNAL, THROW}
    /\ s.post \in {RETURN, SIGNAL, THROW}
    /\ \/ s.to = s.from
       \/ /\ s.from = Ret
          /\ s.post \in Pending
          /\ s.fn \notin {"handle_exit", "non_local_exit_clear"}
       \/ /\ s.at \in Pending
          /\ s.to = Ret
          /\ s.fn \in {"handle_exit", "non_local_exit_clear"}

\* the steps of the last operation
StepsOfLast == IF last.op = "drop" THEN steps ELSE last.calls

CoreErrors == <<rust_panic, rust_error, rust_wrong_type_user_ptr>>

\* the symbols the initializers of queue declare, in the order of the queue
CustomErrors(queue) == [k \in 1..Len(queue) |-> CustomError(queue[k])]

\* C13: the host is made to declare the three built-in symbols first, in
\* their order; initializers run only after that, each one once, in the order
\* of the queue; a custom symbol is declared only after its parent; when
\* activation ends with ok every queued initializer has run and the host has
\* the built-in symbols followed by the custom ones in queue order.
C13_ActivationOrder ==
    /\ \A k \in DOMAIN declared :
          IF k <= 3 THEN declared[k] = CoreErrors[k]
                    ELSE declared[k] \notin RangeOf(CoreErrors)
    /\ ran # <<>> => Len(declared) >= 3
    /\ Len(ran) <= Len(custom_errors)
    /\ ran = SubSeq(custom_errors, 1, Len(ran))
    /\ \A k \in DOMAIN declared : \A i \in 1..MaxInits :
          declared[k] = CustomError(i) =>
              \E j \in 1..(k - 1) : declared[j] = ParentOf(i)
    /\ act = "ok" =>
          /\ ran = custom_errors
          /\ declared = CoreErrors \o CustomErrors(custom_errors)

C13_Witness ==
    /\ act = "ok"
    /\ Len(ran) >= 2
    /\ ran = custom_errors
    /\ declared[4] = CustomError(1)
    /\ declared[5] = CustomError(2)

\* C14: once a host call of a declaration has raised, activation ends in
\* failure; activation ends with ok only when no declaration call raised and
\* every built-in and every queued symbol is declared; it ends in failure
\* only when a declaration call raised.
C14_AllOrNothing ==
    /\ failed => act = "failed"
    /\ act = "failed" => failed
    /\ act = "ok" =>
          /\ ~failed
          /\ Len(declared) = 3 + Len(custom_errors)
          /\ RangeOf(declared) =
                RangeOf(CoreErrors) \cup {CustomError(i) : i \in RangeOf(custom_errors)}

C14_Witness ==
    /\ act = "failed"
    /\ failed
    /\ last.op = "initializer"
    /\ Len(ran) = 2
    /\ Len(declared) = 4
    /\ last.ret.e.k = "Throw"

\* the number of entries of queue that are the initializer i
Entries(queue, i) == Cardinality({k \in DOMAIN queue : queue[k] = i})

\* C21 (as claimed): in every interleaving no static initializer fails, an
\* initializer that has finished has its closure in the queue exactly once
\* and no closure is there twice, and when the queue is drained it holds one
\* entry per registration.
C21_RacingRegistrationsKept ==
    /\ \A i \in 1..MaxInits :
          /\ ctor[i] # "panicked"
          /\ Entries(custom_errors, i) <= 1
          /\ ctor[i] = "done" => Entries(custom_errors, i) = 1
    /\ act # "loading" => Len(custom_errors) = MaxInits

\* the host's answer to a declaration that names a parent it does not know
UnknownSignal == Sig(<<"error">>, <<"Unknown signal">>)

\* the host calls define_core_errors makes when nothing fails, in order
CoreCalls ==
    <<"list", "define-error", "list", "define-error", "intern", "list",
      "define-error">>

\* the host calls of calls, in order (each is followed by its handle_exit)
HostCallsOf(calls) == [k \in 1..(Len(calls) \div 2) |-> calls[2 * k - 1]]

\* C22: define_core_errors makes its host calls in the order of the source,
\* so the host has rust-panic, then rust-error, then rust-wrong-type-user-ptr
\* and never meets a parent it does not know; the first host call that raises
\* is the last call made, its exit is the error returned, and the symbols
\* declared are the ones before it; with no call raising all three are
\* declared and Ok is returned.
C22_CoreWellFounded ==
    last.op = "define_core_errors" =>
        LET hc == HostCallsOf(last.calls) IN
        /\ Len(last.calls) = 2 * Len(hc)
        /\ Len(hc) \in 1..7
        /\ \A k \in DOMAIN hc :
              /\ hc[k].fn = CoreCalls[k]
              /\ hc[k].at = RETURN
              /\ hc[k].to # UnknownSignal
              /\ k < Len(hc) => hc[k].post = RETURN
        /\ \A k \in DOMAIN declared : declared[k] = CoreErrors[k]
        /\ Len(declared) = Cardinality({k \in DOMAIN hc :
                               hc[k].fn = "define-error" /\ hc[k].post = RETURN})
        /\ IF hc[Len(hc)].post = RETURN
           THEN /\ last.ret.tag = "Ok"
                /\ Len(hc) = 7
                /\ declared = CoreErrors
           ELSE /\ last.ret = Err(ErrorOf(hc[Len(hc)].to))
                /\ act = "failed"

C22_Witness ==
    /\ last.op = "define_core_errors"
    /\ Len(last.calls) = 10
    /\ last.calls[9].fn = "intern"
    /\ last.ret.e.k = "Throw"
    /\ declared = <<rust_panic, rust_error>>
    /\ act = "failed"

====
